---- MODULE Spec2Model ----
(***************************************************************************)
(* Model of the backend orchestration service of tis-aidga's GUI           *)
(* (gui/server/index.ts): the /api/generate handler that spawns the        *)
(* external `tisaidga` CLI, classifies its output into progress events,    *)
(* streams them over a server-sent-event response and kills the child when *)
(* the caller goes away.                                                   *)
(*                                                                         *)
(* Text is modelled as a sequence of one-character strings, so that        *)
(* String.split, String.includes, String.trim and the regular expression   *)
(* of the handler are computed character by character.  Literal messages   *)
(* of the program are kept as one multi-character element of such a        *)
(* sequence; template literals are concatenations.                         *)
(***************************************************************************)
EXTENDS Integers, Sequences, FiniteSets, TLC

(***************************************************************************)
(* Bounds of the model.                                                    *)
(***************************************************************************)
\* number of /api/generate requests of one behaviour
NumReqs == 2
\* largest number of 'data' chunks in which one stream of a child is delivered
MaxChunks == 2

Reqs == 1..NumReqs

(***************************************************************************)
(* Text primitives of JavaScript used by the handler.                      *)
(***************************************************************************)
NL == "\n"

\* the characters matched by \s and removed by String.prototype.trim
WhiteSpace == {" ", "\t", "\n", "\r"}

\* the characters matched by \d
Digits == {"0", "1", "2", "3", "4", "5", "6", "7", "8", "9"}

UpperChars == <<"A","B","C","D","E","F","G","H","I","J","K","L","M","N","O","P","Q","R","S","T","U","V","W","X","Y","Z">>

LowerChars == <<"a","b","c","d","e","f","g","h","i","j","k","l","m","n","o","p","q","r","s","t","u","v","w","x","y","z">>

\* case folding of one character, as the /i flag of a RegExp does
LowerChar(c) ==
  IF \E i \in 1..Len(UpperChars) : UpperChars[i] = c
  THEN LowerChars[CHOOSE i \in 1..Len(UpperChars) : UpperChars[i] = c]
  ELSE c

LowerCase(s) == [i \in 1..Len(s) |-> LowerChar(s[i])]

\* s.includes(pat)
Includes(s, pat) ==
  \E i \in 1..(Len(s) - Len(pat) + 1) : SubSeq(s, i, i + Len(pat) - 1) = pat

\* index of the first "\n" of s, 0 when there is none
RECURSIVE FirstNL(_, _)
FirstNL(s, i) ==
  IF i > Len(s) THEN 0
  ELSE IF s[i] = NL THEN i
  ELSE FirstNL(s, i + 1)

\* s.split('\n'): the pieces between newlines; "" splits into [""]
RECURSIVE Split(_)
Split(s) ==
  LET k == FirstNL(s, 1)
  IN IF k = 0 THEN <<s>>
     ELSE <<SubSeq(s, 1, k - 1)>> \o Split(SubSeq(s, k + 1, Len(s)))

RECURSIVE TrimStart(_)
TrimStart(s) ==
  IF s # <<>> /\ s[1] \in WhiteSpace THEN TrimStart(Tail(s)) ELSE s

RECURSIVE TrimEnd(_)
TrimEnd(s) ==
  IF s # <<>> /\ s[Len(s)] \in WhiteSpace
  THEN TrimEnd(SubSeq(s, 1, Len(s) - 1)) ELSE s

\* s.trim()
Trim(s) == TrimEnd(TrimStart(s))

\* the longest run of characters of set S that starts at index i of s
RECURSIVE RunEnd(_, _, _)
RunEnd(s, i, S) ==
  IF i <= Len(s) /\ s[i] \in S THEN RunEnd(s, i + 1, S) ELSE i

(***************************************************************************)
(* The markers of the stdout handler and the messages they map to.         *)
(***************************************************************************)
MarkGenerating == <<"G","e","n","e","r","a","t","i","n","g"," ","d","r","i","v","e","r">>

MarkRunning == <<"R","u","n","n","i","n","g"," ","T","I","S">>

MarkIteration == <<"I","t","e","r","a","t","i","o","n">>

MarkSuccess == <<"S","U","C","C","E","S","S">>

MarkFailed == <<"F","A","I","L","E","D">>

MsgGenerating == <<"Generating initial driver code...">>

MsgRunning == <<"Validating with TIS Analyzer...">>

MsgSuccess == <<"Driver generation successful!">>

MsgFailed == <<"Driver generation failed">>

MsgIteration(n) == <<"Refinement iteration ">> \o n \o <<"...">>

\* a first status message that does not name the function
MsgStartingNoName(fn) == <<"Starting driver generation...">>

MsgStarting(fn) == <<"Starting driver generation for ">> \o fn \o <<"...">>

\* line.match(/Iteration\s+(\d+)/i): the positions where the pattern matches
IterMatchAt(line, i) ==
  /\ i + Len(MarkIteration) - 1 <= Len(line)
  /\ LowerCase(SubSeq(line, i, i + Len(MarkIteration) - 1)) = LowerCase(MarkIteration)
  /\ LET w == i + Len(MarkIteration)
         d == RunEnd(line, w, WhiteSpace)
     IN  d > w /\ d <= Len(line) /\ line[d] \in Digits

\* the capture group of the leftmost match, <<>> when the pattern does not match
IterMatch(line) ==
  IF \E i \in 1..Len(line) : IterMatchAt(line, i)
  THEN LET i == CHOOSE k \in 1..Len(line) :
                  IterMatchAt(line, k) /\ \A j \in 1..(k - 1) : ~IterMatchAt(line, j)
           d == RunEnd(line, i + Len(MarkIteration), WhiteSpace)
       IN SubSeq(line, d, RunEnd(line, d, Digits) - 1)
  ELSE <<>>

(***************************************************************************)
(* Progress events: what sendEvent serialises ({ type, ...data }).         *)
(***************************************************************************)
StatusEvent(m) == [type |-> "status", message |-> m]

LogEvent(m) == [type |-> "log", message |-> m]

ErrLogEvent(m) == [type |-> "log", message |-> m, isError |-> TRUE]

\* exit code reported when the child was terminated by a signal (code is null)
null == 256

\* a complete event whose success flag is computed as !code
CompleteEventNotCode(code, dc, of) ==
  [type |-> "complete", success |-> (code = 0 \/ code = null), exitCode |-> code,
   driverCode |-> dc, outputFile |-> of]

CompleteEvent(code, dc, of) ==
  [type |-> "complete", success |-> (code = 0), exitCode |-> code,
   driverCode |-> dc, outputFile |-> of]

ErrorEvent(m) == [type |-> "error", message |-> m]

\* a chain that tests FAILED before SUCCESS and sends the other's message
ClassifyLineSwapped(line) ==
  IF Includes(line, MarkGenerating) THEN <<StatusEvent(MsgGenerating)>>
  ELSE IF Includes(line, MarkRunning) THEN <<StatusEvent(MsgRunning)>>
  ELSE IF Includes(line, MarkIteration) THEN
         IF IterMatch(line) # <<>>
         THEN <<StatusEvent(MsgIteration(IterMatch(line)))>>
         ELSE <<>>
  ELSE IF Includes(line, MarkFailed) THEN <<StatusEvent(MsgSuccess)>>
  ELSE IF Includes(line, MarkSuccess) THEN <<StatusEvent(MsgFailed)>>
  ELSE IF Trim(line) # <<>> THEN <<LogEvent(Trim(line))>>
  ELSE <<>>

\* the if / else-if chain of the stdout handler for one piece of a chunk:
\* the sequence of events (none or one) sent for it
ClassifyLine(line) ==
  IF Includes(line, MarkGenerating) THEN <<StatusEvent(MsgGenerating)>>
  ELSE IF Includes(line, MarkRunning) THEN <<StatusEvent(MsgRunning)>>
  ELSE IF Includes(line, MarkIteration) THEN
         IF IterMatch(line) # <<>>
         THEN <<StatusEvent(MsgIteration(IterMatch(line)))>>
         ELSE <<>>
  ELSE IF Includes(line, MarkSuccess) THEN <<StatusEvent(MsgSuccess)>>
  ELSE IF Includes(line, MarkFailed) THEN <<StatusEvent(MsgFailed)>>
  ELSE IF Trim(line) # <<>> THEN <<LogEvent(Trim(line))>>
  ELSE <<>>

\* the for loop of the stdout handler over the pieces of one chunk; each
\* event is paired with the offset in the stream of the piece it comes from
RECURSIVE ClassifyPieces(_, _)
ClassifyPieces(pieces, off) ==
  IF pieces = <<>> THEN <<>>
  ELSE LET evs == ClassifyLine(Head(pieces))
       IN [i \in 1..Len(evs) |-> [ev |-> evs[i], stream |-> "stdout", off |-> off]]
          \o ClassifyPieces(Tail(pieces), off + Len(Head(pieces)) + 1)

\* the events of one stdout chunk that starts at offset off of the stream
StdoutEvents(text, off) == ClassifyPieces(Split(text), off)


(***************************************************************************)
(* The environment: request queries, the external CLI and the filesystem.  *)
(***************************************************************************)
\* req.query of the requests: an object that holds only the parameters given
Queries ==
  { [project |-> <<"p">>, filename |-> <<"a.c">>, functionName |-> <<"f">>],
    [project |-> <<"m", "y", " ", "p">>, filename |-> <<"a.c">>, functionName |-> <<"g">>,
     model |-> <<"gpt-4o">>, maxIterations |-> <<"5">>],
    [project |-> <<"p">>, filename |-> <<"a.c">>],
    [project |-> <<>>, filename |-> <<"a.c">>, functionName |-> <<"f">>] }

\* !q[k] of JavaScript: the parameter is missing or is the empty string
Falsy(q, k) == k \notin DOMAIN q \/ q[k] = <<>>

\* destructuring without the default values
QueryOrEmpty(q, k, dflt) == IF k \in DOMAIN q THEN q[k] ELSE <<>>

\* destructuring with a default value
QueryOr(q, k, dflt) == IF k \in DOMAIN q THEN q[k] ELSE dflt

\* const outputFile = `drivers/gui_${functionName}.c`
OutputFile(fn) == <<"drivers/gui_">> \o fn \o <<".c">>

\* args.join(' ')
RECURSIVE JoinSpace(_)
JoinSpace(args) ==
  IF args = <<>> THEN <<>>
  ELSE IF Len(args) = 1 THEN Head(args)
  ELSE Head(args) \o <<" ">> \o JoinSpace(Tail(args))

\* the words /bin/sh makes of an unquoted command line: it splits at blanks
RECURSIVE ShellWords(_, _)
ShellWords(text, word) ==
  IF text = <<>> THEN (IF word = <<>> THEN <<>> ELSE <<word>>)
  ELSE IF Head(text) \in {" ", "\t"}
       THEN (IF word = <<>> THEN <<>> ELSE <<word>>) \o ShellWords(Tail(text), <<>>)
  ELSE ShellWords(Tail(text), Append(word, Head(text)))

\* an argument vector that goes through a command line of the shell
GenArgsViaShell(q) ==
  ShellWords(JoinSpace(
    << <<"gen">>, q.project, q.filename, q.functionName,
       <<"--model">>, QueryOr(q, "model", <<"gpt-4o-mini">>),
       <<"--max-iterations">>, QueryOr(q, "maxIterations", <<"3">>),
       <<"--output">>, OutputFile(q.functionName),
       <<"--with-logs">>, <<"--context">>, <<"function">>, <<"-v">> >>), <<>>)

\* the argument vector handed to spawn
GenArgs(q) ==
  << <<"gen">>, q.project, q.filename, q.functionName,
     <<"--model">>, QueryOr(q, "model", <<"gpt-4o-mini">>),
     <<"--max-iterations">>, QueryOr(q, "maxIterations", <<"3">>),
     <<"--output">>, OutputFile(q.functionName),
     <<"--with-logs">>, <<"--context">>, <<"function">>, <<"-v">> >>

ArtifactPaths ==
  {OutputFile(q.functionName) : q \in {x \in Queries : "functionName" \in DOMAIN x}}

NoFile == [exists |-> FALSE, text |-> <<>>]

StaleFile == [exists |-> TRUE, text |-> <<"driver of an earlier generation">>]

\* the text a run of the CLI for request r writes to its --output file
DriverText(r) == <<"driver written for request ", ToString(r)>>

\* what a started CLI process does: the bytes it prints on stdout and stderr,
\* whether it writes its --output file, whether it exits on its own and with
\* which code
ScriptSuccess ==
  [stdout |-> <<"G","e","n","e","r","a","t","i","n","g"," ","d","r","i","v","e","r","\n","S","U","C","C","E","S","S","\n">>,
   stderr |-> <<>>, writes |-> TRUE, exits |-> TRUE, code |-> 0]

ScriptFailed ==
  [stdout |-> <<"F","A","I","L","E","D","\n">>,
   stderr |-> <<"w","!">>, writes |-> FALSE, exits |-> TRUE, code |-> 1]

ScriptSleep ==
  [stdout |-> <<>>, stderr |-> <<>>, writes |-> FALSE, exits |-> FALSE, code |-> 0]

\* a run that prints a recognized marker on stderr only
ScriptStderrMarker ==
  [stdout |-> <<>>, stderr |-> <<"F","A","I","L","E","D">>,
   writes |-> FALSE, exits |-> TRUE, code |-> 1]

\* a short run that prints on both streams and writes its artifact
ScriptBrief ==
  [stdout |-> <<"k">>, stderr |-> <<"!">>, writes |-> TRUE, exits |-> TRUE, code |-> 0]

Scripts == {ScriptSuccess, ScriptFailed, ScriptSleep, ScriptStderrMarker}

\* spawn failures that Node reports through the 'error' event: the message of
\* the error and the negative errno later passed to 'close'
LaunchErrors ==
  { [message |-> <<"spawn tisaidga ENOENT">>, errno |-> -2],
    [message |-> <<"spawn tisaidga EACCES">>, errno |-> -13] }

\* no child yet; eventsAtSpawn is the number of events that were pushed when
\* spawn was called
NoChild ==
  [state |-> "none", script |-> ScriptSleep, out |-> <<>>, err |-> <<>>,
   wrote |-> FALSE, signalled |-> FALSE, exitCode |-> null,
   error |-> <<>>, args |-> <<>>, eventsAtSpawn |-> 0]

(***************************************************************************)
(* State.                                                                  *)
(***************************************************************************)
VARIABLES
  arrivals,      \* the requests that are made in this behaviour
  phase,         \* per request: "idle", "rejected" (400) or "open" (streaming)
  query,         \* per request: req.query
  res,           \* per request: the response (status, SSE headers, ended)
  sent,          \* per request: the events passed to sendEvent, in call order
  origin,        \* per request: for each event of sent, the stream and offset it comes from
  wire,          \* per request: the events res.write accepted (response still writable)
  child,         \* per request: the child process and its pipes
  outChunks,     \* per request: the stdout chunks handled so far
  errChunks,     \* per request: the stderr chunks handled so far
  spawns,        \* per request: number of calls of spawn
  reqClosed,     \* per request: req 'close' was handled
  disconnected,  \* per request: the caller went away before the server ended the stream
  fs,            \* the files of PROJECT_ROOT/drivers: existence and text
  artifactRead,  \* per request: what the 'close' handler saw when it read the artifact
  env,           \* the queries callers send and the behaviours of the installed CLI
  files,         \* the source files that exist on the local filesystem
  denied,        \* the paths whose probe fails with a permission error
  traversal,     \* the directory order in which find walks this filesystem
  LOCAL_SOURCE_ROOT, \* process.env.LOCAL_SOURCE_ROOT || '' (the empty path when unset)
  resolved,      \* the calls of resolveSourcePath made so far, with their outcomes
  classified,    \* the stdout lines classified so far, each with the events sent for it
  invoked,       \* the command lines run through execSync so far, as the CLI received them
  answered,      \* the requests of the functions endpoint so far, each with its response
  client         \* the page of the browser: its React state and its EventSource

\* the state read and written by the source-path resolver
resolverVars == <<files, denied, traversal, LOCAL_SOURCE_ROOT, resolved>>

\* the state of the generation requests
genVars == <<arrivals, phase, query, res, sent, origin, wire, child, outChunks,
             errChunks, spawns, reqClosed, disconnected, fs, artifactRead, env>>

\* the records of the line classifier and of the init, list and functions
\* endpoints, and the page of the browser, which no handler of /api/generate touches
logVars == <<classified, invoked, answered, client>>

vars == <<genVars, resolverVars, logVars>>

RECURSIVE Flatten(_)
Flatten(ss) == IF ss = <<>> THEN <<>> ELSE Head(ss) \o Flatten(Tail(ss))

\* let fullOutput: the stdout text received so far
fullOutput(r) == Flatten(outChunks[r])

\* the process of request r exists at the OS level
Running(r) == child[r].state = "running"

\* res.write still reaches the caller
Writable(r) == ~res[r].ended /\ ~reqClosed[r]

ServerOrigin == [stream |-> "server", off |-> 0]

\* sendEvent that puts the events in front of those pushed before
sendEventFront(r, evs, orgs) ==
  /\ sent' = [sent EXCEPT ![r] = evs \o @]
  /\ origin' = [origin EXCEPT ![r] = orgs \o @]
  /\ wire' = [wire EXCEPT ![r] = IF Writable(r) THEN evs \o @ ELSE @]

\* sendEvent called once for each element of evs, in order
sendEvent(r, evs, orgs) ==
  /\ sent' = [sent EXCEPT ![r] = @ \o evs]
  /\ origin' = [origin EXCEPT ![r] = @ \o orgs]
  /\ wire' = [wire EXCEPT ![r] = IF Writable(r) THEN @ \o evs ELSE @]

\* the artifact of a request was not read yet
NotRead == [done |-> FALSE, file |-> NoFile, ownRunning |-> FALSE, writers |-> {}]

\* the page before any Generate action: the initial values of useState, no
\* EventSource; clicks and opened count the Generate actions and the streams
NoPage ==
  [clicks |-> 0, opened |-> 0, stream |-> 0, readyState |-> "NONE", seen |-> 0,
   isGenerating |-> FALSE, generationStatus |-> "idle", progressMessage |-> <<>>,
   driverCode |-> <<>>, logs |-> <<>>]

InitCommon ==
  /\ phase = [r \in Reqs |-> "idle"]
  /\ query = [r \in Reqs |-> [project |-> <<>>]]
  /\ res = [r \in Reqs |-> [status |-> 0, sse |-> FALSE, ended |-> FALSE]]
  /\ sent = [r \in Reqs |-> <<>>]
  /\ origin = [r \in Reqs |-> <<>>]
  /\ wire = [r \in Reqs |-> <<>>]
  /\ child = [r \in Reqs |-> NoChild]
  /\ outChunks = [r \in Reqs |-> <<>>]
  /\ errChunks = [r \in Reqs |-> <<>>]
  /\ spawns = [r \in Reqs |-> 0]
  /\ reqClosed = [r \in Reqs |-> FALSE]
  /\ disconnected = [r \in Reqs |-> FALSE]
  /\ fs \in {[p \in ArtifactPaths |-> f] : f \in {NoFile, StaleFile}}
  /\ artifactRead = [r \in Reqs |-> NotRead]
  /\ classified = <<>>
  /\ invoked = <<>>
  /\ answered = <<>>
  /\ client = NoPage

\* no call of the resolver: the resolver's state stays as it is
ResolverIdle ==
  /\ files = {}
  /\ denied = {}
  /\ traversal = "forward"
  /\ LOCAL_SOURCE_ROOT = <<>>
  /\ resolved = <<>>

\* one generation request, any query, any behaviour of the CLI
Init ==
  /\ InitCommon
  /\ ResolverIdle
  /\ arrivals = {1}
  /\ env = [queries |-> Queries, scripts |-> Scripts, launchErrors |-> LaunchErrors]

(***************************************************************************)
(* app.get('/api/generate'): validation, SSE headers, the first status     *)
(* event, spawn and the registration of the callbacks.                     *)
(***************************************************************************)
Generate(r) ==
  /\ r \in arrivals
  /\ phase[r] = "idle"
  /\ \E q \in env.queries :
       /\ query' = [query EXCEPT ![r] = q]
       /\ IF Falsy(q, "project") \/ Falsy(q, "filename") \/ Falsy(q, "functionName")
          THEN /\ phase' = [phase EXCEPT ![r] = "rejected"]
               /\ res' = [res EXCEPT ![r].status = 400, ![r].ended = TRUE]
               /\ UNCHANGED <<sent, origin, wire, child, spawns>>
          ELSE /\ phase' = [phase EXCEPT ![r] = "open"]
               /\ res' = [res EXCEPT ![r].status = 200, ![r].sse = TRUE]
               /\ sendEvent(r, <<StatusEvent(MsgStarting(q.functionName))>>, <<ServerOrigin>>)
               /\ spawns' = [spawns EXCEPT ![r] = @ + 1]
               /\ \/ \E e \in env.launchErrors :
                       child' = [child EXCEPT ![r] =
                                   [NoChild EXCEPT !.state = "spawnfail",
                                                   !.error = e.message,
                                                   !.exitCode = e.errno,
                                                   !.eventsAtSpawn = Len(sent'[r]),
                                                   !.args = GenArgs(q)]]
                  \/ \E s \in env.scripts :
                       child' = [child EXCEPT ![r] =
                                   [NoChild EXCEPT !.state = "running",
                                                   !.script = s,
                                                   !.out = s.stdout,
                                                   !.err = s.stderr,
                                                   !.eventsAtSpawn = Len(sent'[r]),
                                                   !.args = GenArgs(q)]]
  /\ UNCHANGED <<logVars, resolverVars, env, artifactRead, arrivals, outChunks, errChunks, reqClosed, disconnected, fs>>

\* a 'data' chunk may take the first n bytes of what is left of a stream when
\* the number of chunks stays within the bound
ChunkOK(chunks, rest, n) ==
  /\ n \in 1..Len(rest)
  /\ Len(chunks) + 1 < MaxChunks \/ n = Len(rest)

\* a stdout handler that only accumulates the text and pushes no event
StdoutDataBuffered(r, n) ==
  /\ child[r].state \in {"running", "exited"}
  /\ ChunkOK(outChunks[r], child[r].out, n)
  /\ outChunks' = [outChunks EXCEPT ![r] = Append(@, SubSeq(child[r].out, 1, n))]
  /\ child' = [child EXCEPT ![r].out = SubSeq(@, n + 1, Len(@))]
  /\ UNCHANGED <<logVars, resolverVars, env, artifactRead, arrivals, phase, query, res, sent, origin, wire, errChunks,
                 spawns, reqClosed, disconnected, fs>>

\* child.stdout.on('data')
StdoutData(r, n) ==
  /\ child[r].state \in {"running", "exited"}
  /\ ChunkOK(outChunks[r], child[r].out, n)
  /\ LET text == SubSeq(child[r].out, 1, n)
         found == StdoutEvents(text, Len(fullOutput(r)))
     IN  /\ outChunks' = [outChunks EXCEPT ![r] = Append(@, text)]
         /\ sendEvent(r, [i \in 1..Len(found) |-> found[i].ev],
                         [i \in 1..Len(found) |-> [stream |-> "stdout", off |-> found[i].off]])
  /\ child' = [child EXCEPT ![r].out = SubSeq(@, n + 1, Len(@))]
  /\ UNCHANGED <<logVars, resolverVars, env, artifactRead, arrivals, phase, query, res, errChunks, spawns, reqClosed, disconnected, fs>>

\* a stderr handler that sends the text through the classifier of stdout
StderrDataClassified(r, n) ==
  /\ child[r].state \in {"running", "exited"}
  /\ ChunkOK(errChunks[r], child[r].err, n)
  /\ LET text == SubSeq(child[r].err, 1, n)
         found == StdoutEvents(text, Len(Flatten(errChunks[r])))
     IN  /\ errChunks' = [errChunks EXCEPT ![r] = Append(@, text)]
         /\ sendEvent(r, [i \in 1..Len(found) |-> found[i].ev],
                         [i \in 1..Len(found) |-> [stream |-> "stderr", off |-> found[i].off]])
  /\ child' = [child EXCEPT ![r].err = SubSeq(@, n + 1, Len(@))]
  /\ UNCHANGED <<logVars, resolverVars, env, artifactRead, arrivals, phase, query, res, outChunks, spawns, reqClosed, disconnected, fs>>

\* child.stderr.on('data')
StderrData(r, n) ==
  /\ child[r].state \in {"running", "exited"}
  /\ ChunkOK(errChunks[r], child[r].err, n)
  /\ LET text == SubSeq(child[r].err, 1, n)
     IN  /\ errChunks' = [errChunks EXCEPT ![r] = Append(@, text)]
         /\ sendEvent(r, <<ErrLogEvent(text)>>,
                         <<[stream |-> "stderr", off |-> Len(Flatten(errChunks[r]))]>>)
  /\ child' = [child EXCEPT ![r].err = SubSeq(@, n + 1, Len(@))]
  /\ UNCHANGED <<logVars, resolverVars, env, artifactRead, arrivals, phase, query, res, outChunks, spawns, reqClosed, disconnected, fs>>

\* the CLI writes the file named by its --output argument
ChildWriteArtifact(r) ==
  /\ Running(r)
  /\ child[r].script.writes
  /\ ~child[r].wrote
  /\ fs' = [fs EXCEPT ![OutputFile(query[r].functionName)] =
                        [exists |-> TRUE, text |-> DriverText(r)]]
  /\ child' = [child EXCEPT ![r].wrote = TRUE]
  /\ UNCHANGED <<logVars, resolverVars, env, artifactRead, arrivals, phase, query, res, sent, origin, wire, outChunks,
                 errChunks, spawns, reqClosed, disconnected>>

\* the CLI exits on its own; what it printed and was not read yet stays in the pipes
ChildExit(r) ==
  /\ Running(r)
  /\ child[r].script.exits
  /\ child[r].script.writes => child[r].wrote
  /\ child' = [child EXCEPT ![r].state = "exited", ![r].exitCode = child[r].script.code]
  /\ UNCHANGED <<logVars, resolverVars, env, artifactRead, arrivals, phase, query, res, sent, origin, wire, outChunks,
                 errChunks, spawns, reqClosed, disconnected, fs>>

\* the SIGTERM of child.kill() terminates the CLI: what it had printed before
\* is left in the pipes (all of its remaining output, or none of it)
SignalDelivered(r) ==
  /\ Running(r)
  /\ child[r].signalled
  /\ \E printed \in BOOLEAN :
       child' = [child EXCEPT ![r].state = "exited",
                              ![r].exitCode = null,
                              ![r].out = IF printed THEN @ ELSE <<>>,
                              ![r].err = IF printed THEN @ ELSE <<>>]
  /\ UNCHANGED <<logVars, resolverVars, env, artifactRead, arrivals, phase, query, res, sent, origin, wire, outChunks,
                 errChunks, spawns, reqClosed, disconnected, fs>>

\* an 'error' handler that spawns the CLI again
ChildOnErrorRetry(r) ==
  /\ child[r].state = "spawnfail"
  /\ sendEvent(r, <<ErrorEvent(child[r].error)>>, <<ServerOrigin>>)
  /\ spawns' = [spawns EXCEPT ![r] = @ + 1]
  /\ child' = [child EXCEPT ![r].state = "failed"]
  /\ UNCHANGED <<logVars, resolverVars, env, artifactRead, arrivals, phase, query, res, outChunks, errChunks,
                 reqClosed, disconnected, fs>>

\* child.on('error'): Node reports the spawn failure
ChildOnError(r) ==
  /\ child[r].state = "spawnfail"
  /\ sendEvent(r, <<ErrorEvent(child[r].error)>>, <<ServerOrigin>>)
  /\ res' = [res EXCEPT ![r].ended = TRUE]
  /\ child' = [child EXCEPT ![r].state = "failed"]
  /\ UNCHANGED <<logVars, resolverVars, env, artifactRead, arrivals, phase, query, outChunks, errChunks, spawns,
                 reqClosed, disconnected, fs>>

\* the completion handled on 'exit', when the pipes may still hold output
CloseDueOnExit(r) == child[r].state \in {"exited", "failed"}

\* Node emits 'close' when the process has ended and its stdio streams are
\* closed, also after the 'error' of a failed spawn
CloseDue(r) ==
  \/ child[r].state = "exited" /\ child[r].out = <<>> /\ child[r].err = <<>>
  \/ child[r].state = "failed"

\* what a read of the artifact of request r observes now: the file, and the
\* requests whose CLI process runs with the same --output path
ReadNow(r) ==
  [done |-> TRUE,
   file |-> fs[OutputFile(query[r].functionName)],
   ownRunning |-> Running(r),
   writers |-> {w \in Reqs : /\ Running(w)
                             /\ OutputFile(query[w].functionName)
                                  = OutputFile(query[r].functionName)}]

\* a 'close' handler that never reads the file
readDriverSkipped(outputPath) == <<>>

\* if (fs.existsSync(outputPath)) driverCode = fs.readFileSync(outputPath),
\* with let driverCode = '' before
readDriver(outputPath) ==
  IF fs[outputPath].exists THEN fs[outputPath].text ELSE <<>>

\* a 'close' handler that sends the complete event and leaves the response open
ChildOnCloseNoEnd(r) ==
  /\ CloseDue(r)
  /\ LET outputFile == OutputFile(query[r].functionName)
         driverCode == readDriver(outputFile)
     IN  sendEvent(r, <<CompleteEvent(child[r].exitCode, driverCode, outputFile)>>,
                      <<ServerOrigin>>)
  /\ artifactRead' = [artifactRead EXCEPT ![r] = ReadNow(r)]
  /\ child' = [child EXCEPT ![r].state = "closed"]
  /\ UNCHANGED <<logVars, resolverVars, env, arrivals, phase, query, res, outChunks, errChunks, spawns,
                 reqClosed, disconnected, fs>>

\* child.on('close')
ChildOnClose(r) ==
  /\ CloseDue(r)
  /\ LET outputFile == OutputFile(query[r].functionName)
         driverCode == readDriver(outputFile)
     IN  sendEvent(r, <<CompleteEvent(child[r].exitCode, driverCode, outputFile)>>,
                      <<ServerOrigin>>)
  /\ artifactRead' = [artifactRead EXCEPT ![r] = ReadNow(r)]
  /\ res' = [res EXCEPT ![r].ended = TRUE]
  /\ child' = [child EXCEPT ![r].state = "closed"]
  /\ UNCHANGED <<logVars, resolverVars, env, arrivals, phase, query, outChunks, errChunks, spawns,
                 reqClosed, disconnected, fs>>

\* a kill that signals the children of all the requests
killAll(r) ==
  child' = [w \in Reqs |-> IF Running(w) THEN [child[w] EXCEPT !.signalled = TRUE]
                                         ELSE child[w]]

\* a kill that signals the recorded pid whether or not the process still exists
killAlways(r) == child' = [child EXCEPT ![r].signalled = TRUE]

\* a disconnect handler that does not kill
killSkipped(r) == child' = child

\* a kill that is guarded by the wrong condition: only after the process ended
killWrongGuard(r) ==
  child' = [child EXCEPT ![r].signalled = @ \/ (child[r].state = "exited")]

\* child.kill(): SIGTERM is sent when the process still exists
kill(r) ==
  child' = [child EXCEPT ![r].signalled = @ \/ Running(r)]

\* req.on('close'): the caller's connection is gone, or the response was ended
ReqOnClose(r) ==
  /\ phase[r] = "open"
  /\ child[r].state # "spawnfail"
  /\ ~reqClosed[r]
  /\ reqClosed' = [reqClosed EXCEPT ![r] = TRUE]
  /\ disconnected' = [disconnected EXCEPT ![r] = ~res[r].ended]
  /\ kill(r)
  /\ UNCHANGED <<logVars, resolverVars, env, artifactRead, arrivals, phase, query, res, sent, origin, wire, outChunks,
                 errChunks, spawns, fs>>

Next ==
  \E r \in Reqs :
    \/ Generate(r)
    \/ \E n \in 1..Len(child[r].out) : StdoutData(r, n)
    \/ \E n \in 1..Len(child[r].err) : StderrData(r, n)
    \/ ChildWriteArtifact(r)
    \/ ChildExit(r)
    \/ SignalDelivered(r)
    \/ ChildOnError(r)
    \/ ChildOnClose(r)
    \/ ReqOnClose(r)

Spec == Init /\ [][Next]_vars

\* two generation requests in flight at once, for the same function, with a
\* CLI that is either missing or makes a short run
MultiInit ==
  /\ InitCommon
  /\ ResolverIdle
  /\ arrivals \in {a \in SUBSET Reqs : Cardinality(a) = 2}
  /\ env = [queries |-> {[project |-> <<"p">>, filename |-> <<"a.c">>,
                          functionName |-> <<"f">>]},
            scripts |-> {ScriptBrief},
            launchErrors |-> {[message |-> <<"spawn tisaidga ENOENT">>, errno |-> -2]}]

MultiSpec == MultiInit /\ [][Next]_vars

\* the operating system delivers a pending signal
FairSpec == Spec /\ \A r \in Reqs : WF_vars(SignalDelivered(r))

\* one request with a valid query, for a CLI that is missing, makes a short
\* run or sleeps
LiveInit ==
  /\ InitCommon
  /\ ResolverIdle
  /\ arrivals = {1}
  /\ env = [queries |-> {[project |-> <<"p">>, filename |-> <<"a.c">>,
                          functionName |-> <<"f">>]},
            scripts |-> {ScriptBrief, ScriptSleep},
            launchErrors |-> {[message |-> <<"spawn tisaidga ENOENT">>, errno |-> -2]}]

\* the event loop of Node runs every callback that is due: the 'data' of
\* output waiting in a pipe, the 'error' of a failed spawn, the 'close' of
\* an ended process; the operating system delivers a pending signal
LiveSpec ==
  /\ LiveInit
  /\ [][Next]_vars
  /\ \A r \in Reqs :
       /\ WF_vars(\E n \in 1..Len(child[r].out) : StdoutData(r, n))
       /\ WF_vars(\E n \in 1..Len(child[r].err) : StderrData(r, n))
       /\ WF_vars(ChildOnError(r))
       /\ WF_vars(ChildOnClose(r))
       /\ WF_vars(SignalDelivered(r))

(***************************************************************************)
(* The path resolver, resolveSourcePath(remotePath, filename).              *)
(*                                                                         *)
(* A path is absolute and normalised: the sequence of its segments.  A     *)
(* directory name is one element; a file name is the sequence of its       *)
(* characters, since the search of strategy 4 reads it as a pattern.       *)
(* The filesystem is the set `files` of regular files, the directories     *)
(* being the proper prefixes of the files, and the set `denied` of         *)
(* directories that the server may not search.                             *)
(***************************************************************************)
MaxCalls == 2

\* return null
unresolved == <<>>

\* const PROJECT_ROOT = path.resolve(process.cwd(), '..')
PROJECT_ROOT == << <<"proj">> >>

\* the name of the 'src' subdirectory and of the anchor of /\/work\/(.+)$/
SrcDir == <<"src">>
WorkDir == <<"work">>

FileX == <<"x", ".", "c">>
FileY == <<"y", ".", "c">>

\* the files that may exist on the machine of the server
Universe ==
  << << <<"h">>, WorkDir, <<"lib">>, FileX >>,
     << <<"l">>, <<"lib">>, FileX >>,
     << <<"proj">>, FileX >>,
     << <<"proj">>, SrcDir, FileX >>,
     << <<"proj">>, <<"a">>, <<"b">>, FileX >>,
     << <<"proj">>, <<"a">>, FileY >>,
     << <<"proj">>, <<"d1">>, <<"d2">>, <<"d3">>, <<"d4">>, <<"d5">>, FileX >> >>

UniverseFiles == {Universe[i] : i \in 1..Len(Universe)}

\* directories whose search permission may be missing
DeniableDirs == { << <<"proj">>, SrcDir >>, << <<"proj">>, <<"a">> >> }

\* values of the environment variable LOCAL_SOURCE_ROOT ('' when unset)
OverrideRoots == { <<>>, << <<"l">> >> }

\* the remote paths of the file records, and the file names of the requests
RemotePaths ==
  { << <<"h">>, WorkDir, <<"lib">>, FileX >>,
    << <<"nonexistent">>, FileX >> }

\* a command substitution inside a file name, written as one element of the
\* name, and the directory that its command deletes (the server runs in a
\* subdirectory of PROJECT_ROOT)
RmCommand == "$(cd ..;rm -r a)"

RmDir == << <<"proj">>, <<"a">> >>

Filenames == { FileX, <<"*", ".", "c">>, <<"x", "\"">> }

\* file names of which one makes the shell run a command
CommandFilenames == { FileX, <<RmCommand>> \o FileX }

IsProperPrefix(d, p) == Len(d) < Len(p) /\ SubSeq(p, 1, Len(d)) = d

\* stat(p) succeeds: every directory on the way to p may be searched
Accessible(p) == \A d \in denied : ~IsProperPrefix(d, p)

\* fs.existsSync(p): true for a file or a directory, false when stat fails
existsSync(p) ==
  /\ p # <<>>
  /\ Accessible(p)
  /\ \/ p \in files
     \/ \E f \in files : IsProperPrefix(p, f)

\* path.normalize of segments: '.' is dropped, '..' drops the segment before
RECURSIVE normalize(_, _)
normalize(done, rest) ==
  IF rest = <<>> THEN done
  ELSE IF Head(rest) = <<".">> THEN normalize(done, Tail(rest))
  ELSE IF Head(rest) = <<"..">>
       THEN normalize(IF done = <<>> THEN <<>> ELSE SubSeq(done, 1, Len(done) - 1),
                      Tail(rest))
  ELSE normalize(Append(done, Head(rest)), Tail(rest))

\* path.join(base, rel)
join(base, rel) == normalize(<<>>, base \o rel)

\* remotePath.match(/\/work\/(.+)$/): the first segment 'work' that is
\* followed by something; 0 when there is no match
workMatch(remotePath) ==
  LET hits == {i \in 1..(Len(remotePath) - 1) : remotePath[i] = WorkDir}
  IN  IF hits = {} THEN 0 ELSE CHOOSE i \in hits : \A j \in hits : i <= j

\* one existence probe, as the call records it
Probe(s, p) == [strategy |-> s, kind |-> "exists", path |-> p, found |-> existsSync(p)]

\* the outcome of a strategy that made the probes ps and returned nothing
Miss(ps) == [probes |-> ps, result |-> unresolved, raised |-> FALSE]

\* the outcome of a strategy whose last probe made it return p
Hit(ps, p) == [probes |-> ps, result |-> p, raised |-> FALSE]

\* 1. the path as it is
Direct(remotePath) ==
  LET pr == Probe(1, remotePath)
  IN  IF pr.found THEN Hit(<<pr>>, remotePath) ELSE Miss(<<pr>>)

\* a remapping that returns the mapped path without probing it
RemapUnprobed(remotePath) ==
  IF LOCAL_SOURCE_ROOT # <<>> /\ workMatch(remotePath) # 0
  THEN Hit(<<>>, join(LOCAL_SOURCE_ROOT,
                      SubSeq(remotePath, workMatch(remotePath) + 1, Len(remotePath))))
  ELSE Miss(<<>>)

\* a remapping that keeps the anchor segment in the mapped path
RemapKeepAnchor(remotePath) ==
  IF LOCAL_SOURCE_ROOT # <<>> /\ workMatch(remotePath) # 0
  THEN LET localPath == join(LOCAL_SOURCE_ROOT,
                             SubSeq(remotePath, workMatch(remotePath), Len(remotePath)))
           pr == Probe(2, localPath)
       IN  IF pr.found THEN Hit(<<pr>>, localPath) ELSE Miss(<<pr>>)
  ELSE Miss(<<>>)

\* 2. with the LOCAL_SOURCE_ROOT mapping
Remap(remotePath) ==
  IF LOCAL_SOURCE_ROOT # <<>> /\ workMatch(remotePath) # 0
  THEN LET localPath == join(LOCAL_SOURCE_ROOT,
                             SubSeq(remotePath, workMatch(remotePath) + 1, Len(remotePath)))
           pr == Probe(2, localPath)
       IN  IF pr.found THEN Hit(<<pr>>, localPath) ELSE Miss(<<pr>>)
  ELSE Miss(<<>>)

\* const searchPaths = [join(PROJECT_ROOT, filename), join(PROJECT_ROOT, 'src', filename)]
searchPaths(filename) ==
  << join(PROJECT_ROOT, <<filename>>), join(PROJECT_ROOT, <<SrcDir, filename>>) >>

\* 3. by file name in PROJECT_ROOT: for (const searchPath of searchPaths)
RECURSIVE Sibling(_, _)
Sibling(paths, ps) ==
  IF paths = <<>> THEN Miss(ps)
  ELSE LET pr == Probe(3, Head(paths))
       IN  IF pr.found THEN Hit(Append(ps, pr), Head(paths))
           ELSE Sibling(Tail(paths), Append(ps, pr))

\* find ... -maxdepth 5
MaxDepth == 5

Quote == "\""

\* the shell reads `find "<root>" -maxdepth 5 -name "<filename>" -type f ...`:
\* a quote in the file name ends the quoted word; an odd number of them leaves
\* a word unterminated and the shell fails without running anything.  A
\* command substitution in the name is run by the shell before find, also
\* inside the double quotes, and is replaced by its output (none for rm):
\* rm -r deletes the files of the directory when the directory allows it.
Shell(filename) ==
  LET failed == Cardinality({i \in 1..Len(filename) : filename[i] = Quote}) % 2 = 1
      runs == \E i \in 1..Len(filename) : filename[i] = RmCommand
  IN  [failed  |-> failed,
       pattern |-> SelectSeq(filename, LAMBDA c : c # Quote /\ c # RmCommand),
       removes |-> IF ~failed /\ runs
                   THEN {f \in files : IsProperPrefix(RmDir, f) /\ Accessible(f)}
                   ELSE {}]

\* find -name: the file name is a shell pattern, matched against the base name
RECURSIVE GlobMatch(_, _)
GlobMatch(pat, name) ==
  IF pat = <<>> THEN name = <<>>
  ELSE IF Head(pat) = "*"
       THEN GlobMatch(Tail(pat), name) \/ (name # <<>> /\ GlobMatch(pat, Tail(name)))
  ELSE IF Head(pat) = "?"
       THEN name # <<>> /\ GlobMatch(Tail(pat), Tail(name))
  ELSE name # <<>> /\ Head(name) = Head(pat) /\ GlobMatch(Tail(pat), Tail(name))

\* the regular files that find prints for the pattern, of the files present
\* when it runs: under PROJECT_ROOT, at most MaxDepth levels below it, in
\* directories it may read (its errors go to /dev/null)
findMatches(present, pattern) ==
  {i \in 1..Len(Universe) :
     /\ Universe[i] \in present
     /\ IsProperPrefix(PROJECT_ROOT, Universe[i])
     /\ Len(Universe[i]) - Len(PROJECT_ROOT) <= MaxDepth
     /\ Accessible(Universe[i])
     /\ GlobMatch(pattern, Universe[i][Len(Universe[i])])}

\* ... | head -1, and .trim() of the output: the first match in the order in
\* which this filesystem is traversed, '' when there is none
findResult(present, pattern) ==
  LET hits == findMatches(present, pattern)
      first == IF traversal = "forward"
               THEN CHOOSE i \in hits : \A j \in hits : i <= j
               ELSE CHOOSE i \in hits : \A j \in hits : i >= j
      line == Universe[first]
  IN  IF hits = {} THEN <<>>
      ELSE Append(SubSeq(line, 1, Len(line) - 1), TrimEnd(line[Len(line)]))

\* what the call records of the search itself
FindProbe(kind, out) == [strategy |-> 4, kind |-> kind, path |-> out, found |-> out # <<>>]

\* a search whose execSync is not inside try/catch
SearchUncaught(filename) ==
  IF Shell(filename).failed
  THEN [probes |-> <<FindProbe("find-error", <<>>)>>, result |-> unresolved, raised |-> TRUE]
  ELSE LET out == findResult(files \ Shell(filename).removes, Shell(filename).pattern)
       IN  IF out # <<>>
           THEN (IF Probe(4, out).found
                 THEN Hit(<<FindProbe("find", out), Probe(4, out)>>, out)
                 ELSE Miss(<<FindProbe("find", out), Probe(4, out)>>))
           ELSE Miss(<<FindProbe("find", out)>>)

\* 4. recursive search in PROJECT_ROOT: try { execSync(find ...) ... } catch {}
Search(filename) ==
  IF Shell(filename).failed
  THEN Miss(<<FindProbe("find-error", <<>>)>>)
  ELSE LET out == findResult(files \ Shell(filename).removes, Shell(filename).pattern)
       IN  IF out # <<>>
           THEN (IF Probe(4, out).found
                 THEN Hit(<<FindProbe("find", out), Probe(4, out)>>, out)
                 ELSE Miss(<<FindProbe("find", out), Probe(4, out)>>))
           ELSE Miss(<<FindProbe("find", out)>>)

\* a chain that goes on probing after a strategy has returned a path
OrElseEager(a, b) ==
  [probes |-> a.probes \o b.probes,
   result |-> IF a.result # unresolved THEN a.result ELSE b.result,
   raised |-> a.raised \/ b.raised]

\* the strategy a returned or raised: nothing more is done; else b is tried
OrElse(a, b) ==
  IF a.result # unresolved \/ a.raised THEN a
  ELSE [probes |-> a.probes \o b.probes, result |-> b.result, raised |-> b.raised]

\* function resolveSourcePath(remotePath: string, filename: string): string | null
resolveSourcePath(remotePath, filename) ==
  OrElse(Direct(remotePath),
         OrElse(Remap(remotePath),
                OrElse(Sibling(searchPaths(filename), <<>>),
                       Search(filename))))

\* a call on a filesystem whose traversal order changes from call to call
ResolveUnstableTraversal(remotePath, filename) ==
  /\ Len(resolved) < MaxCalls
  /\ LET r == resolveSourcePath(remotePath, filename)
     IN  /\ resolved' = Append(resolved,
                            [remotePath |-> remotePath, filename |-> filename,
                             result |-> r.result, probes |-> r.probes, raised |-> r.raised])
         /\ files' = IF \E i \in 1..Len(r.probes) : r.probes[i].strategy = 4
                     THEN files \ Shell(filename).removes
                     ELSE files
  /\ traversal' = (IF traversal = "forward" THEN "reverse" ELSE "forward")
  /\ UNCHANGED <<genVars, logVars, denied, LOCAL_SOURCE_ROOT>>

\* one call of the resolver, recorded with what it did; when the call gets
\* as far as strategy 4, the shell has run what the file name made it run
Resolve(remotePath, filename) ==
  /\ Len(resolved) < MaxCalls
  /\ LET r == resolveSourcePath(remotePath, filename)
     IN  /\ resolved' = Append(resolved,
                            [remotePath |-> remotePath, filename |-> filename,
                             result |-> r.result, probes |-> r.probes, raised |-> r.raised])
         /\ files' = IF \E i \in 1..Len(r.probes) : r.probes[i].strategy = 4
                     THEN files \ Shell(filename).removes
                     ELSE files
  /\ UNCHANGED <<genVars, logVars, denied, traversal, LOCAL_SOURCE_ROOT>>

\* a server that only resolves paths, on any filesystem over the Universe
ResolverInit ==
  /\ InitCommon
  /\ arrivals = {}
  /\ fs = [p \in ArtifactPaths |-> NoFile]
  /\ env = [queries |-> {}, scripts |-> {}, launchErrors |-> {}]
  /\ files \in SUBSET UniverseFiles
  /\ denied \in {{}} \cup {{d} : d \in DeniableDirs}
  /\ traversal \in {"forward", "reverse"}
  /\ LOCAL_SOURCE_ROOT \in OverrideRoots
  /\ resolved = <<>>

ResolverNext == \E remotePath \in RemotePaths, filename \in Filenames : Resolve(remotePath, filename)

ResolverSpec == ResolverInit /\ [][ResolverNext]_vars

\* the same server, asked for files whose names may hold a command
CommandNext ==
  \E remotePath \in RemotePaths, filename \in CommandFilenames : Resolve(remotePath, filename)

CommandSpec == ResolverInit /\ [][CommandNext]_vars

\* the calls made so far
Calls == {resolved[k] : k \in 1..Len(resolved)}

\* the strategies of which the call made a probe
Tried(c) == {c.probes[i].strategy : i \in 1..Len(c.probes)}

\* the existence probes of the call that found their path
Found(c) == {i \in 1..Len(c.probes) : c.probes[i].kind = "exists" /\ c.probes[i].found}

(***************************************************************************)
(* The line classifier on its own: the else-if chain of the stdout         *)
(* handler applied to single lines, each call recorded with its events.    *)
(***************************************************************************)
MaxLines == 2

\* the lines the CLI may print
Lines ==
  { <<>>, <<" ">>, <<" ", "\t">>,
    MarkGenerating, MarkRunning, MarkSuccess, MarkFailed,
    <<"[", "1", "]", " ">> \o MarkSuccess \o <<"!">>,
    MarkIteration \o <<" ", "3", " ", "o", "f", " ", "5">>,
    LowerCase(MarkIteration) \o <<" ", "3">>,
    <<"I", "T", "E", "R", "A", "T", "I", "O", "N", " ", "3">>,
    MarkIteration,
    MarkIteration \o <<"7">>,
    MarkIteration \o <<":", " ">> \o MarkFailed,
    MarkRunning \o <<" ">> \o MarkIteration \o <<" ", "1", "0">>,
    MarkSuccess \o <<" ">> \o MarkFailed,
    MarkIteration \o <<" ", "2", " ">> \o MarkSuccess,
    <<"n", "o", "t", "e">>,
    <<" ", "n", "o", "t", "e", " ">> }

\* a classifier whose pattern carries the g flag: after a match the next
\* search starts behind it, and misses
ClassifyGlobalFlag(line) ==
  /\ Len(classified) < MaxLines
  /\ LET prev == IF classified = <<>> THEN <<>> ELSE classified[Len(classified)].events
         evs == ClassifyLine(line)
     IN  classified' = Append(classified,
           [line |-> line,
            events |-> IF prev # <<>> /\ prev[1].type = "status" /\ IterMatch(line) # <<>>
                       THEN <<>> ELSE evs])
  /\ UNCHANGED <<genVars, resolverVars, invoked, answered, client>>

\* one line goes through the chain of the stdout handler
Classify(line) ==
  /\ Len(classified) < MaxLines
  /\ classified' = Append(classified, [line |-> line, events |-> ClassifyLine(line)])
  /\ UNCHANGED <<genVars, resolverVars, invoked, answered, client>>

\* no generation request is made
GenIdle ==
  /\ arrivals = {}
  /\ fs = [p \in ArtifactPaths |-> NoFile]
  /\ env = [queries |-> {}, scripts |-> {}, launchErrors |-> {}]

ClassifierInit == InitCommon /\ ResolverIdle /\ GenIdle

ClassifierNext == \E line \in Lines : Classify(line)

ClassifierSpec == ClassifierInit /\ [][ClassifierNext]_vars

\* the lines classified so far
Classified == {classified[k] : k \in 1..Len(classified)}

\* empty or whitespace only
Blank(line) == \A i \in 1..Len(line) : line[i] \in WhiteSpace

\* the four fixed markers and the status message of each
FixedMarkers == <<MarkGenerating, MarkRunning, MarkSuccess, MarkFailed>>

FixedMessages == <<MsgGenerating, MsgRunning, MsgSuccess, MsgFailed>>

\* the fixed markers that the line contains
FixedIn(line) == {k \in 1..Len(FixedMarkers) : Includes(line, FixedMarkers[k])}

\* the line contains the word Iteration, in any letter case
HasIterationWord(line) == Includes(LowerCase(line), LowerCase(MarkIteration))

\* the length of the text "Iteration <N>" in the line, 0 when there is none
IterationLen(line) ==
  IF IterMatch(line) = <<>> THEN 0
  ELSE LET i == CHOOSE k \in 1..Len(line) :
                  IterMatchAt(line, k) /\ \A j \in 1..(k - 1) : ~IterMatchAt(line, j)
           d == RunEnd(line, i + Len(MarkIteration), WhiteSpace)
       IN  RunEnd(line, d, Digits) - i

\* the recognized markers of the line that name a status: length and message
MarkersIn(line) ==
  {[len |-> Len(FixedMarkers[k]), message |-> FixedMessages[k]] : k \in FixedIn(line)}
    \cup (IF IterMatch(line) # <<>>
          THEN {[len |-> IterationLen(line), message |-> MsgIteration(IterMatch(line))]}
          ELSE {})

\* the number of recognized markers in the line, the word Iteration included
MarkerCount(line) ==
  Cardinality(FixedIn(line)) + (IF HasIterationWord(line) THEN 1 ELSE 0)

(***************************************************************************)
(* The endpoints that run the CLI through execSync: /api/init,             *)
(* /api/projects and /api/projects/:project/files.  Each run is recorded   *)
(* with the arguments that the CLI received.                               *)
(***************************************************************************)
MaxRuns == 2

\* req.body.compilationDbPath, req.body.projectName (<<>> when absent) and
\* req.params.project
DbPaths == { <<>>, <<"d", "b">>, <<"c", "c", ".", "j", "s", "o", "n">>, <<"m", "y", " ", "d", "b">> }

\* execSync(command): /bin/sh -c command; the arguments of tisaidga are the
\* words of the command line after the program name
execSync(command) == Tail(ShellWords(command, <<>>))

\* const args = ['init', compilationDbPath]; if (projectName) args.push('--name',
\* projectName); args.push('-v')
InitArgs(compilationDbPath, projectName) ==
  << <<"init">>, compilationDbPath >>
    \o (IF projectName # <<>> THEN << <<"--name">>, projectName >> ELSE <<>>)
    \o << <<"-v">> >>

Run(op, input, argv) ==
  /\ Len(invoked) < MaxRuns
  /\ invoked' = Append(invoked, [op |-> op, input |-> input, argv |-> argv])
  /\ UNCHANGED <<genVars, resolverVars, classified, answered, client>>

\* app.post('/api/init'): 400 without compilationDbPath, else the CLI is run
ApiInit(compilationDbPath, projectName) ==
  /\ compilationDbPath # <<>>
  /\ Run("init", [compilationDbPath |-> compilationDbPath, projectName |-> projectName],
         execSync(<<"tisaidga", " ">> \o JoinSpace(InitArgs(compilationDbPath, projectName))))

\* app.get('/api/projects')
ApiProjects == Run("projects", [project |-> <<>>], execSync(<<"tisaidga", " ", "list">>))

\* app.get('/api/projects/:project/files')
ApiFiles(project) ==
  Run("files", [project |-> project],
      execSync(<<"tisaidga", " ", "list", " ">> \o project \o <<" ", "-v">>))

CliInit == InitCommon /\ ResolverIdle /\ GenIdle

CliNext ==
  \/ \E compilationDbPath \in DbPaths, projectName \in { <<>>, <<"p">>, <<"m", "y", " ", "p">> } :
       ApiInit(compilationDbPath, projectName)
  \/ ApiProjects
  \/ \E project \in { <<"p">>, <<"m", "y", " ", "p">> } : ApiFiles(project)

CliSpec == CliInit /\ [][CliNext]_vars

\* the remote path of the call has the anchor: a segment 'work' with more after it
HasAnchor(c) == \E i \in 1..(Len(c.remotePath) - 1) : c.remotePath[i] = WorkDir

\* the override root followed by what comes after the first anchor of the remote path
Candidate(c) ==
  LET a == CHOOSE i \in 1..(Len(c.remotePath) - 1) :
             /\ c.remotePath[i] = WorkDir
             /\ \A j \in 1..(i - 1) : c.remotePath[j] # WorkDir
  IN  LOCAL_SOURCE_ROOT \o SubSeq(c.remotePath, a + 1, Len(c.remotePath))

(***************************************************************************)
(* Vocabulary of the properties.                                           *)
(***************************************************************************)
Terminal(e) == e.type \in {"complete", "error"}

\* the number of events of sequence evs of the given type
CountType(evs, t) == Cardinality({i \in 1..Len(evs) : evs[i].type = t})

CountTerminal(evs) == Cardinality({i \in 1..Len(evs) : Terminal(evs[i])})

\* the events of request r that come from the given stream, in push order
EventsFrom(r, st) ==
  LET zip == [i \in 1..Len(sent[r]) |-> [ev |-> sent[r][i], org |-> origin[r][i]]]
      FromSt(z) == z.org.stream = st
      sel == SelectSeq(zip, FromSt)
  IN  [i \in 1..Len(sel) |-> sel[i].ev]

\* the events the stdout handler finds in a sequence of chunks, chunk by chunk
RECURSIVE EventsOfChunks(_, _)
EventsOfChunks(chunks, off) ==
  IF chunks = <<>> THEN <<>>
  ELSE LET found == StdoutEvents(Head(chunks), off)
       IN [i \in 1..Len(found) |-> found[i].ev]
          \o EventsOfChunks(Tail(chunks), off + Len(Head(chunks)))

\* the CLI process of request r was started (spawn did not fail)
Started(r) == child[r].state \in {"running", "exited", "closed"} /\ child[r].error = <<>>

\* the spawn of request r failed
LaunchFailed(r) == child[r].error # <<>>

\* every callback of the child of request r has run
Closed(r) == child[r].state = "closed"

Last(s) == s[Len(s)]

(***************************************************************************)
(* C1: the events pushed for a validated request contain exactly one       *)
(* terminal event (complete or error), and it is the last event pushed.    *)
(* Violated: after a failed spawn Node emits 'error' and then 'close', and *)
(* both handlers push a terminal event.                                    *)
(***************************************************************************)
C1_ExactlyOneTerminalLast ==
  \A r \in Reqs :
    phase[r] = "open" =>
      /\ CountTerminal(sent[r]) <= 1
      /\ CountTerminal(sent[r]) = 1 => Terminal(Last(sent[r]))
      /\ Closed(r) => CountTerminal(sent[r]) = 1

(***************************************************************************)
(* C2: when the caller's channel closes while the subprocess runs, the     *)
(* subprocess is signalled and is eventually no longer running, even when  *)
(* it would sleep forever (under fair delivery of the signal).             *)
(***************************************************************************)
C2_CancelTerminatesChild ==
  \A r \in Reqs : (disconnected[r] /\ Running(r)) ~> ~Running(r)

C2_Witness ==
  \E r \in Reqs :
    /\ disconnected[r]
    /\ ~child[r].script.exits
    /\ child[r].state = "exited"
    /\ child[r].exitCode = null

(***************************************************************************)
(* C3 as stated: in every state where a request has ended (stream ended by *)
(* the server or caller disconnected) its subprocess is not running.       *)
(* Violated right after a disconnect: SIGTERM was sent, not yet delivered. *)
(***************************************************************************)
C3_NoSubprocessOutlivesRequest ==
  \A r \in Reqs :
    (phase[r] = "open" /\ (res[r].ended \/ disconnected[r])) => ~Running(r)

(***************************************************************************)
(* C3 amended: once the server ended the stream the subprocess is not      *)
(* running; once the caller disconnected the subprocess is not running or  *)
(* the termination signal has been sent to it.                             *)
(***************************************************************************)
C3_EndedStoppedOrSignalled ==
  \A r \in Reqs :
    /\ (phase[r] = "open" /\ res[r].ended) => ~Running(r)
    /\ (phase[r] = "open" /\ disconnected[r]) => (~Running(r) \/ child[r].signalled)

C3_Witness ==
  \E r \in Reqs : disconnected[r] /\ Running(r) /\ child[r].signalled

(***************************************************************************)
(* C4: when the subprocess cannot be started, exactly one error event with *)
(* the launch error message is emitted, no complete event, nothing after   *)
(* the error event, and the stream is ended.                               *)
(* Violated: the 'close' that follows the 'error' pushes a complete event. *)
(***************************************************************************)
C4_LaunchFailureOneError ==
  \A r \in Reqs :
    (LaunchFailed(r) /\ child[r].state \in {"failed", "closed"}) =>
      /\ CountType(sent[r], "error") = 1
      /\ CountType(sent[r], "complete") = 0
      /\ Last(sent[r]) = ErrorEvent(child[r].error)
      /\ res[r].ended

(***************************************************************************)
(* C5: for a subprocess that was started and exits while the caller stays  *)
(* connected, exactly one complete event is emitted, after every event     *)
(* derived from stdout and stderr; nothing is pushed after it.             *)
(***************************************************************************)
C5_OneCompleteAfterOutput ==
  \A r \in Reqs :
    (Started(r) /\ ~disconnected[r]) =>
      /\ CountType(sent[r], "complete") = (IF Closed(r) THEN 1 ELSE 0)
      /\ Closed(r) =>
           /\ Last(sent[r]).type = "complete"
           /\ EventsFrom(r, "stdout") = EventsOfChunks(outChunks[r], 0)
           /\ Flatten(errChunks[r]) = child[r].script.stderr
           /\ fullOutput(r) = child[r].script.stdout

C5_Witness ==
  \E r \in Reqs :
    /\ Started(r) /\ ~disconnected[r] /\ Closed(r)
    /\ child[r].exitCode = 1
    /\ Len(EventsFrom(r, "stdout")) > 0
    /\ Len(EventsFrom(r, "stderr")) > 0

(***************************************************************************)
(* C6: the events derived from one stream (stdout, or stderr) are pushed   *)
(* in the order of the output that produced them.                          *)
(***************************************************************************)
C6_OrderWithinStream ==
  \A r \in Reqs :
    \A i, j \in 1..Len(sent[r]) :
      (i < j /\ origin[r][i].stream = origin[r][j].stream
             /\ origin[r][i].stream \in {"stdout", "stderr"})
        => origin[r][i].off < origin[r][j].off

C6_Witness ==
  \E r \in Reqs :
    /\ Len(EventsFrom(r, "stdout")) >= 2
    /\ Len(EventsFrom(r, "stderr")) >= 2

(***************************************************************************)
(* C7: whatever the split of stdout into chunks, the stdout-derived events *)
(* are those of classifying each line of the whole stream once.            *)
(* Violated: every chunk is split and classified on its own, so a line cut *)
(* by a chunk boundary is classified as two fragments.                     *)
(***************************************************************************)
C7_EventsOfWholeLines ==
  \A r \in Reqs :
    (Started(r) /\ Closed(r)) =>
      EventsFrom(r, "stdout") = EventsOfChunks(<<fullOutput(r)>>, 0)

(***************************************************************************)
(* C8: the events of an output chunk are pushed in the step that handles   *)
(* the chunk: in every state, also while the subprocess is running, the    *)
(* events of all chunks handled so far have been pushed.                   *)
(***************************************************************************)
C8_PushedAsDataArrives ==
  \A r \in Reqs :
    /\ EventsFrom(r, "stdout") = EventsOfChunks(outChunks[r], 0)
    /\ EventsFrom(r, "stderr") = [i \in 1..Len(errChunks[r]) |-> ErrLogEvent(errChunks[r][i])]
    /\ ~Writable(r) \/ wire[r] = sent[r]

C8_Witness ==
  \E r \in Reqs :
    /\ Running(r) /\ Writable(r)
    /\ child[r].out # <<>>
    /\ Len(EventsFrom(r, "stdout")) > 0
    /\ wire[r] = sent[r]

(***************************************************************************)
(* C9: a request spawns at most one subprocess in its whole life, also     *)
(* after a failed launch, a nonzero exit or a cancellation.                *)
(***************************************************************************)
C9_AtMostOneSpawn ==
  \A r \in Reqs :
    /\ spawns[r] <= 1
    /\ phase[r] = "open" <=> spawns[r] = 1

C9_Witness ==
  \E r \in Reqs :
    /\ spawns[r] = 1 /\ Closed(r)
    /\ LaunchFailed(r) \/ child[r].exitCode = 1 \/ disconnected[r]

(***************************************************************************)
(* C10: for a subprocess that prints "Generating driver", then "SUCCESS",  *)
(* writes the artifact and exits 0, the events are exactly                 *)
(* status(Generating initial driver code...), status(Driver generation     *)
(* successful!), complete(success, artifact text).                         *)
(* Violated: the handler first pushes the status "Starting driver          *)
(* generation for ...", and a chunk boundary inside a line yields log      *)
(* events of the fragments.                                                *)
(***************************************************************************)
C10_ExactlyThreeEvents ==
  \A r \in Reqs :
    (/\ Started(r) /\ Closed(r) /\ ~reqClosed[r]
     /\ child[r].script = ScriptSuccess
     /\ child[r].exitCode = 0) =>
      /\ Len(sent[r]) = 3
      /\ sent[r][1] = StatusEvent(MsgGenerating)
      /\ sent[r][2] = StatusEvent(MsgSuccess)
      /\ sent[r][3].type = "complete"
      /\ sent[r][3].success
      /\ sent[r][3].driverCode = DriverText(r)

(***************************************************************************)
(* C11: the complete event carries the exit code and success = (code = 0); *)
(* a nonzero exit or a termination by signal (code null) is reported as    *)
(* complete with success = false, never as an error event.                 *)
(***************************************************************************)
C11_CompleteCarriesExitCode ==
  \A r \in Reqs :
    Started(r) =>
      /\ CountType(sent[r], "error") = 0
      /\ Closed(r) =>
           /\ Last(sent[r]).type = "complete"
           /\ Last(sent[r]).exitCode = child[r].exitCode
           /\ Last(sent[r]).success = (child[r].exitCode = 0)
           /\ child[r].exitCode # 0 => ~Last(sent[r]).success

C11_Witness ==
  \E r \in Reqs :
    /\ Started(r) /\ Closed(r)
    /\ child[r].exitCode = null
    /\ Last(sent[r]).type = "complete" /\ ~Last(sent[r]).success

(***************************************************************************)
(* C12: the artifact text of the complete event is the content of the file *)
(* at the request's output path when the file exists at the moment of the  *)
(* 'close' callback, and the empty text when it does not.                  *)
(***************************************************************************)
C12_ArtifactTextIsFileContent ==
  \A r \in Reqs :
    artifactRead[r].done =>
      /\ Last(sent[r]).type = "complete"
      /\ Last(sent[r]).outputFile = OutputFile(query[r].functionName)
      /\ Last(sent[r]).driverCode =
           (IF artifactRead[r].file.exists THEN artifactRead[r].file.text ELSE <<>>)

C12_Witness ==
  \E r \in Reqs :
    /\ artifactRead[r].done
    /\ artifactRead[r].file.exists
    /\ Last(sent[r]).driverCode = DriverText(r)

(***************************************************************************)
(* C13: an artifact path is never read while a subprocess that was given   *)
(* that path as its --output is still running, also with several requests  *)
(* in flight.                                                              *)
(* Violated: two requests for the same function name share the path; the   *)
(* 'close' handler of one reads it while the CLI of the other runs.  The   *)
(* read never overlaps the request's own subprocess.                       *)
(***************************************************************************)
C13_NoReadWhileAnyWriterRuns ==
  \A r \in Reqs : artifactRead[r].done => artifactRead[r].writers = {}

(***************************************************************************)
(* C14: every stderr output is pushed as a log event with isError = true   *)
(* and the text unchanged; no status event is derived from stderr, also    *)
(* when the text contains a recognized marker.                             *)
(***************************************************************************)
C14_StderrBypassesClassifier ==
  \A r \in Reqs :
    /\ EventsFrom(r, "stderr") =
         [i \in 1..Len(errChunks[r]) |->
            [type |-> "log", message |-> errChunks[r][i], isError |-> TRUE]]
    /\ \A i \in 1..Len(sent[r]) :
         origin[r][i].stream = "stderr" => sent[r][i].type # "status"

C14_Witness ==
  \E r \in Reqs :
    \E i \in 1..Len(sent[r]) :
      /\ origin[r][i].stream = "stderr"
      /\ Includes(sent[r][i].message, MarkFailed)
      /\ sent[r][i].type = "log" /\ sent[r][i].isError

(***************************************************************************)
(* C15: cancellation is idempotent.  A close of the caller's channel that  *)
(* comes after the request completed changes nothing: no signal, no event, *)
(* no change of the request; and after a first close a further kill        *)
(* changes nothing.                                                        *)
(***************************************************************************)
C15_CancelAfterCompletionNoOp ==
  \A r \in Reqs :
    /\ (phase[r] = "open" /\ Closed(r) /\ ~reqClosed[r]) =>
         ~ENABLED (/\ ReqOnClose(r)
                   /\ <<child, sent, wire, origin, res, fs, spawns, phase>>'
                        # <<child, sent, wire, origin, res, fs, spawns, phase>>)
    /\ (phase[r] = "open" /\ (Closed(r) \/ reqClosed[r])) =>
         ~ENABLED (kill(r) /\ child' # child)

C15_Witness ==
  \E r \in Reqs :
    /\ Started(r) /\ Closed(r)
    /\ reqClosed[r] /\ ~disconnected[r]
    /\ ~child[r].signalled

(***************************************************************************)
(* C16: the resolver is an ordered fallback chain.  The probes of a call   *)
(* come in the order direct, remap, sibling (root, then src), search; the  *)
(* first probe that finds its path ends the call with that path and no     *)
(* later probe is made.                                                    *)
(***************************************************************************)
C16_OrderedFirstSuccessWins ==
  \A c \in Calls :
    /\ c.probes # <<>>
    /\ c.probes[1].strategy = 1 /\ c.probes[1].path = c.remotePath
    /\ \A i, j \in 1..Len(c.probes) :
         i < j =>
           /\ c.probes[i].strategy <= c.probes[j].strategy
           /\ c.probes[i].strategy = 3 /\ c.probes[j].strategy = 3 =>
                /\ c.probes[i].path = Append(PROJECT_ROOT, c.filename)
                /\ c.probes[j].path = PROJECT_ROOT \o <<SrcDir, c.filename>>
    /\ \A i \in Found(c) : i = Len(c.probes) /\ c.result = c.probes[i].path
    /\ Cardinality({i \in 1..Len(c.probes) : c.probes[i].strategy \in {1, 2}}) <= 2
    /\ Cardinality({i \in 1..Len(c.probes) : c.probes[i].strategy = 3}) <= 2

C16_Witness ==
  \E c \in Calls :
    /\ c.result = Append(PROJECT_ROOT, c.filename)
    /\ PROJECT_ROOT \o <<SrcDir, c.filename>> \in files
    /\ \E f \in files : Len(f) > 3 /\ IsProperPrefix(PROJECT_ROOT, f) /\ f[Len(f)] = c.filename
    /\ c.probes[Len(c.probes)].strategy = 3
    /\ Cardinality({i \in 1..Len(c.probes) : c.probes[i].strategy = 3}) = 1

(***************************************************************************)
(* C17: a path returned by the resolver was found to exist by a probe of   *)
(* that same call (and exists); a call in which no probe found its path    *)
(* returns the unresolved marker.                                          *)
(***************************************************************************)
C17_ResultWasProbed ==
  \A c \in Calls :
    /\ c.result # unresolved =>
         \E i \in Found(c) : c.probes[i].path = c.result /\ i = Len(c.probes)
    /\ Found(c) = {} => c.result = unresolved

C17_Witness ==
  \E c \in Calls :
    /\ c.result # unresolved
    /\ c.probes[Len(c.probes)].strategy = 2
    /\ IsProperPrefix(LOCAL_SOURCE_ROOT, c.result) /\ LOCAL_SOURCE_ROOT # <<>>

(***************************************************************************)
(* C18: the resolver returns the unresolved marker exactly when all four   *)
(* strategies fail; in particular when the remote path does not exist      *)
(* locally, no override is configured and no file named filename lies      *)
(* under the project root.                                                 *)
(* Violated: the search of strategy 4 reads filename as a pattern, and     *)
(* returns a file with another name that the pattern matches.              *)
(***************************************************************************)
C18_UnresolvedIffAllFail ==
  \A c \in Calls :
    /\ c.result = unresolved <=> Found(c) = {}
    /\ (/\ ~existsSync(c.remotePath)
        /\ LOCAL_SOURCE_ROOT = <<>>
        /\ ~\E f \in files : IsProperPrefix(PROJECT_ROOT, f) /\ f[Len(f)] = c.filename)
         => c.result = unresolved

(***************************************************************************)
(* C19: the resolver never raises, whatever the request and the            *)
(* filesystem: a search that fails and candidates that cannot be accessed  *)
(* count as misses, after which the remaining strategies are still tried.  *)
(***************************************************************************)
C19_NeverRaises ==
  \A c \in Calls :
    /\ ~c.raised
    /\ c.result = unresolved =>
         /\ {1, 3, 4} \subseteq Tried(c)
         /\ Cardinality({i \in 1..Len(c.probes) : c.probes[i].strategy = 3}) = 2
         /\ (LOCAL_SOURCE_ROOT # <<>> /\ workMatch(c.remotePath) # 0) => 2 \in Tried(c)
    /\ \A i \in 1..Len(c.probes) :
         (c.probes[i].kind = "exists" /\ ~Accessible(c.probes[i].path) /\ c.probes[i].strategy < 4)
           => i < Len(c.probes)

C19_Witness ==
  \E c, d \in Calls :
    /\ \E i \in 1..Len(c.probes) :
         /\ c.probes[i].path \in files /\ ~Accessible(c.probes[i].path)
         /\ c.probes[Len(c.probes)].strategy = 4
         /\ c.result # unresolved
    /\ \E i \in 1..Len(d.probes) : d.probes[i].kind = "find-error"
    /\ d.result = unresolved /\ ~d.raised

C21_RemapWinsWhenCandidateExists ==
  \A c \in Calls :
    /\ (LOCAL_SOURCE_ROOT # <<>> /\ HasAnchor(c) /\ existsSync(Candidate(c))) =>
         /\ c.result = Candidate(c)
         /\ c.probes[Len(c.probes)].strategy = 2
    /\ (LOCAL_SOURCE_ROOT = <<>> \/ ~HasAnchor(c)) => 2 \notin Tried(c)

(***************************************************************************)
(* C21 amended: the same, for a remote path that does not itself exist on  *)
(* the local filesystem: the probes are then the direct probe, which       *)
(* misses, and the probe of the candidate, which gives the result.         *)
(***************************************************************************)
C21_RemapAfterDirectMiss ==
  \A c \in Calls :
    /\ (LOCAL_SOURCE_ROOT # <<>> /\ HasAnchor(c)) =>
         /\ \A i \in 1..Len(c.probes) :
              c.probes[i].strategy = 2 => c.probes[i].path = Candidate(c)
         /\ ~existsSync(c.remotePath) =>
              /\ Len(c.probes) >= 2 /\ c.probes[2].path = Candidate(c)
              /\ existsSync(Candidate(c)) =>
                   /\ c.result = Candidate(c)
                   /\ Len(c.probes) = 2
                   /\ Tried(c) = {1, 2}
    /\ (LOCAL_SOURCE_ROOT = <<>> \/ ~HasAnchor(c)) => 2 \notin Tried(c)

C21_Witness ==
  \E c \in Calls :
    /\ LOCAL_SOURCE_ROOT # <<>> /\ HasAnchor(c)
    /\ ~existsSync(c.remotePath)
    /\ c.result = Candidate(c)
    /\ Append(PROJECT_ROOT, c.filename) \in files

(***************************************************************************)
(* C22: a stdout line yields no event or one event, and no event only      *)
(* when it is blank: a non-blank line that gives no status gives one log.  *)
(* Violated: a line with the word Iteration and no number after it enters  *)
(* the Iteration branch, where nothing is sent, and is dropped.            *)
(***************************************************************************)
C22_OnlyBlankLinesAreSilent ==
  \A c \in Classified :
    /\ Len(c.events) <= 1
    /\ c.events = <<>> => Blank(c.line)
    /\ (~Blank(c.line) /\ \A i \in 1..Len(c.events) : c.events[i].type # "status")
         => Len(c.events) = 1 /\ c.events[1].type = "log"

(***************************************************************************)
(* C23: a line with the word Iteration in any letter case, whitespace and  *)
(* a number N, and no other marker, yields the status "Refinement          *)
(* iteration N...".                                                        *)
(* Violated: the branch is entered by a case-sensitive test, so            *)
(* "iteration 3" and "ITERATION 3" are sent as logs.                       *)
(***************************************************************************)
C23_IterationAnyCase ==
  \A c \in Classified :
    (IterMatch(c.line) # <<>> /\ FixedIn(c.line) = {})
      => c.events = <<StatusEvent(MsgIteration(IterMatch(c.line)))>>

C25_LongestMarkerWins ==
  \A c \in Classified :
    MarkerCount(c.line) >= 2 =>
      /\ Len(c.events) = 1
      /\ c.events[1].type = "status"
      /\ \E m \in MarkersIn(c.line) :
           /\ c.events[1].message = m.message
           /\ \A o \in MarkersIn(c.line) : o.len <= m.len

C27_DiscreteArguments ==
  \A r \in Reqs :
    child[r].state # "none" =>
      LET a == child[r].args
          q == query[r]
      IN  /\ Len(a) = 14
          /\ a[1] = <<"gen">>
          /\ a[2] = q.project /\ a[3] = q.filename /\ a[4] = q.functionName
          /\ a[5] = <<"--model">>
          /\ "model" \in DOMAIN q => a[6] = q.model
          /\ a[7] = <<"--max-iterations">>
          /\ "maxIterations" \in DOMAIN q => a[8] = q.maxIterations
          /\ a[9] = <<"--output">>
          /\ a[10] = <<"drivers/gui_">> \o q.functionName \o <<".c">>
          /\ a[11] = <<"--with-logs">>
          /\ a[12] = <<"--context">> /\ a[13] = <<"function">>
          /\ a[14] = <<"-v">>

C27_Witness ==
  \E r \in Reqs :
    /\ child[r].state = "running"
    /\ \E i \in 1..Len(query[r].project) : query[r].project[i] = " "
    /\ child[r].args[2] = query[r].project
    /\ Len(child[r].args) = 14

(***************************************************************************)
(* C28: with several requests in flight each request has its own           *)
(* subprocess, event stream and cancellation hook.  A step in which one    *)
(* request's subprocess or pipes change pushes no event to another         *)
(* request; the close of one caller's channel changes no other request's   *)
(* subprocess; and a subprocess is signalled only after the close of its   *)
(* own request's channel.                                                  *)
(***************************************************************************)
C28_RequestsIsolated ==
  /\ [](\A r \in Reqs : child[r].signalled => reqClosed[r])
  /\ [][\A r \in Reqs : \A w \in Reqs \ {r} :
          /\ reqClosed'[r] # reqClosed[r] =>
               /\ child'[w] = child[w]
               /\ sent'[w] = sent[w] /\ res'[w] = res[w]
          /\ (child'[r] # child[r] \/ outChunks'[r] # outChunks[r]
                \/ errChunks'[r] # errChunks[r]) =>
               /\ sent'[w] = sent[w] /\ wire'[w] = wire[w]
               /\ origin'[w] = origin[w] /\ res'[w] = res[w]]_vars

C28_Witness ==
  \E r, w \in Reqs :
    /\ r # w
    /\ reqClosed[r] /\ child[r].signalled
    /\ Running(w) /\ ~child[w].signalled /\ ~reqClosed[w]
    /\ \E i \in 1..Len(sent[w]) : origin[w][i].stream = "stdout"
    /\ \E i \in 1..Len(sent[r]) : origin[r][i].stream = "stdout"

(***************************************************************************)
(* C29: a call of the resolver changes nothing: the files that exist after *)
(* the call are those that existed before it, whatever the file name       *)
(* holds, and no other state of the server changes.                        *)
(* Violated: strategy 4 puts the file name into a command line of the      *)
(* shell, and a command substitution in the name is run.                   *)
(***************************************************************************)
C29_ResolverChangesNothing ==
  [][resolved' # resolved =>
       /\ files' = files /\ denied' = denied /\ fs' = fs
       /\ traversal' = traversal /\ LOCAL_SOURCE_ROOT' = LOCAL_SOURCE_ROOT]_vars

(***************************************************************************)
(* C30: init runs the CLI with the arguments init, dbPath, then --name and *)
(* the name when a name was given, then -v; the project list runs it with  *)
(* list, and the file list with list, project, -v.  Each of dbPath, name   *)
(* and project is one argument, also when it holds a blank.                *)
(* Violated: the arguments are joined into one command line for the        *)
(* shell, which splits it again at every blank.                            *)
(***************************************************************************)
C30_CliArgumentsDiscrete ==
  \A c \in {invoked[k] : k \in 1..Len(invoked)} :
    /\ c.op = "init" =>
         c.argv = << <<"init">>, c.input.compilationDbPath >>
                    \o (IF c.input.projectName # <<>>
                        THEN << <<"--name">>, c.input.projectName >> ELSE <<>>)
                    \o << <<"-v">> >>
    /\ c.op = "projects" => c.argv = << <<"list">> >>
    /\ c.op = "files" => c.argv = << <<"list">>, c.input.project, <<"-v">> >>

(***************************************************************************)
(* The functions endpoint, /api/projects/:project/files/:filename/functions.*)
(* It reads the record of the file in the project, resolves the remote     *)
(* path of the record and extracts the function names of the source file.  *)
(* A source text is a sequence of words and of single other characters.    *)
(***************************************************************************)
MaxAnswers == 1

\* fs.readFileSync(sourcePath, 'utf-8'): the text of the source files, by name
SourceText(p) ==
  IF p[Len(p)] = FileY
  THEN <<"void", " ", "g", "(", ")", " ", "{", "\n", "}", "\n">>
  ELSE <<"int", " ", "f", "(", "int", " ", "a", ")", " ", "{", "\n",
         " ", " ", "if", " ", "(", "a", ")", " ", "{", "}", "\n", "}", "\n",
         "int", " ", "f", "(", ")", " ", "{", "}", "\n">>

\* the records <project>/files/<filename>.json of a project: absent, not
\* JSON, or a record with the remote path of the file
FileInfos ==
  { [exists |-> FALSE, json |-> FALSE, path |-> <<>>],
    [exists |-> TRUE, json |-> FALSE, path |-> <<>>] }
    \cup {[exists |-> TRUE, json |-> TRUE, path |-> p] : p \in RemotePaths}

\* `${remotePath}`: the segments of a path joined by '/'
RECURSIVE PathString(_)
PathString(p) ==
  IF p = <<>> THEN <<>> ELSE <<"/">> \o Head(p) \o PathString(Tail(p))

\* /^[\w\s\*]+\s+(\w+)\s*\([^)]*\)\s*\{/ tried at index i of s: the run of
\* words, blanks and stars that starts at i must end with blank, word and
\* optional blanks, in front of a parenthesised list and an opening brace
FunctionMatchAt(s, i) ==
  LET words == {"int", "void", "if", "f", "g", "a"}
      p == RunEnd(s, i, words \cup WhiteSpace \cup {"*"})
      names == {n \in i..(p - 1) : s[n] \notin WhiteSpace}
      n == IF names = {} THEN 0 ELSE CHOOSE k \in names : \A j \in names : j <= k
      closing == {k \in (p + 1)..Len(s) : s[k] = ")"}
      q == IF p <= Len(s) /\ s[p] = "(" /\ closing # {}
           THEN CHOOSE k \in closing : \A j \in closing : k <= j ELSE 0
      t == IF q = 0 THEN 0 ELSE RunEnd(s, q + 1, WhiteSpace)
      ok == /\ n >= i + 2
            /\ s[n] \in words
            /\ s[n - 1] \in WhiteSpace
            /\ q # 0
            /\ t <= Len(s)
            /\ s[t] = "{"
  IN  [ok |-> ok, name |-> IF ok THEN s[n] ELSE "", end |-> t]

\* while ((match = functionRegex.exec(sourceCode)) !== null) with the flags
\* gm: the matches at line starts from index i on, each search starting
\* behind the match before; the names the filter lets through
RECURSIVE ExtractFunctions(_, _)
ExtractFunctions(s, i) ==
  IF i > Len(s) THEN <<>>
  ELSE IF (i = 1 \/ s[i - 1] = NL) /\ FunctionMatchAt(s, i).ok
       THEN (IF FunctionMatchAt(s, i).name \in {"if", "while", "for", "switch", "else"}
             THEN <<>> ELSE <<FunctionMatchAt(s, i).name>>)
            \o ExtractFunctions(s, FunctionMatchAt(s, i).end + 1)
  ELSE ExtractFunctions(s, i + 1)

\* [...new Set(functions)]: the first occurrence of each name, in order
RECURSIVE Distinct(_)
Distinct(s) ==
  IF s = <<>> THEN <<>>
  ELSE LET front == Distinct(SubSeq(s, 1, Len(s) - 1))
       IN  IF \E k \in 1..Len(front) : front[k] = s[Len(s)]
           THEN front ELSE Append(front, s[Len(s)])

\* res.status(code).json({ error: message })
ErrorAnswer(code, message) ==
  [status |-> code, body |-> [error |-> message], sourceRead |-> <<>>]

\* the body of the handler after the record was parsed, with a miss that is
\* thrown to the catch clause of the handler
FunctionsOfThrowing(remotePath, r) ==
  IF r.raised \/ r.result = unresolved
  THEN ErrorAnswer(500, <<"Source file not found locally. Remote path: ">>
                          \o PathString(remotePath)
                          \o <<". Set LOCAL_SOURCE_ROOT env var to map paths.">>)
  ELSE IF r.result \notin files
  THEN ErrorAnswer(500, <<"EISDIR: illegal operation on a directory, read">>)
  ELSE [status |-> 200,
        body |-> [functions |-> Distinct(ExtractFunctions(SourceText(r.result), 1))],
        sourceRead |-> r.result]

\* the body of the handler after the record was parsed: r is what
\* resolveSourcePath(remotePath, filename) did and returned
FunctionsOf(remotePath, r) ==
  IF r.raised
  THEN ErrorAnswer(500, <<"Command failed">>)
  ELSE IF r.result = unresolved
  THEN ErrorAnswer(404, <<"Source file not found locally. Remote path: ">>
                          \o PathString(remotePath)
                          \o <<". Set LOCAL_SOURCE_ROOT env var to map paths.">>)
  ELSE IF r.result \notin files
  THEN ErrorAnswer(500, <<"EISDIR: illegal operation on a directory, read">>)
  ELSE [status |-> 200,
        body |-> [functions |-> Distinct(ExtractFunctions(SourceText(r.result), 1))],
        sourceRead |-> r.result]

\* app.get('/api/projects/:project/files/:filename/functions')
ApiFunctions(info, filename) ==
  /\ Len(answered) < MaxAnswers
  /\ LET r == resolveSourcePath(info.path, filename)
         called == info.exists /\ info.json
         answer == IF ~info.exists THEN ErrorAnswer(404, <<"File not found in project">>)
                   ELSE IF ~info.json THEN ErrorAnswer(500, <<"Unexpected token in JSON">>)
                   ELSE FunctionsOf(info.path, r)
     IN  /\ answered' = Append(answered,
                          [info |-> info, filename |-> filename, called |-> called,
                           result |-> IF called THEN r.result ELSE unresolved,
                           answer |-> answer])
         /\ files' = IF called /\ \E i \in 1..Len(r.probes) : r.probes[i].strategy = 4
                     THEN files \ Shell(filename).removes
                     ELSE files
  /\ UNCHANGED <<genVars, classified, invoked, client, denied, traversal, LOCAL_SOURCE_ROOT, resolved>>

FunctionsNext == \E info \in FileInfos, filename \in Filenames : ApiFunctions(info, filename)

\* a server that only answers the functions endpoint, on any filesystem
FunctionsSpec == ResolverInit /\ [][FunctionsNext]_vars

(***************************************************************************)
(* C31: when the resolver returns unresolved for the file of a project,    *)
(* the functions endpoint answers 404 with a message that names the remote *)
(* path and the LOCAL_SOURCE_ROOT setting, reads no source file and        *)
(* returns no function list; the miss is not answered with a 500.          *)
(***************************************************************************)
C31_MissIsNotFound ==
  \A a \in {answered[k] : k \in 1..Len(answered)} :
    (a.called /\ a.result = unresolved) =>
      /\ a.answer.status = 404
      /\ a.answer.body =
           [error |-> <<"Source file not found locally. Remote path: ">>
                        \o PathString(a.info.path)
                        \o <<". Set LOCAL_SOURCE_ROOT env var to map paths.">>]
      /\ a.answer.sourceRead = <<>>
      /\ "functions" \notin DOMAIN a.answer.body

C31_Witness ==
  \E a \in {answered[k] : k \in 1..Len(answered)} :
    /\ a.called /\ a.result = unresolved
    /\ a.info.path = << <<"h">>, WorkDir, <<"lib">>, FileX >>
    /\ a.answer.status = 404
    /\ \E f \in files : f[Len(f)] = FileX

(***************************************************************************)
(* C32: a path returned by strategy 4 is a regular file whose name equals  *)
(* filename exactly and that lies at most 5 levels below the project root; *)
(* a file with another name, or a deeper one, is never returned.           *)
(* Violated: find -name reads filename as a pattern, so for the file name  *)
(* "*.c" the search returns a file named x.c or y.c.  The depth limit and  *)
(* the restriction to regular files do hold.                               *)
(***************************************************************************)
C32_SearchReturnsExactName ==
  \A c \in Calls :
    (c.result # unresolved /\ c.probes[Len(c.probes)].strategy = 4) =>
      /\ c.result[Len(c.result)] = c.filename
      /\ IsProperPrefix(PROJECT_ROOT, c.result)
      /\ Len(c.result) - Len(PROJECT_ROOT) <= 5
      /\ c.result \in UniverseFiles

(***************************************************************************)
(* C33: for a non-blank stdout line without any recognized marker the      *)
(* message of the log event is the line itself, character for character,   *)
(* leading and trailing whitespace included.                               *)
(* Violated: the handler sends line.trim(); the line " note " is logged as *)
(* "note".                                                                 *)
(***************************************************************************)
C33_LogMessageIsRawLine ==
  \A c \in Classified :
    (~Blank(c.line) /\ MarkerCount(c.line) = 0) =>
      c.events = <<[type |-> "log", message |-> c.line]>>

(***************************************************************************)
(* C34: the artifact text of a request's complete event is empty or is the *)
(* text that the request's own subprocess wrote during the request; it is  *)
(* never the content left at the output path by an earlier generation, nor *)
(* content written by the subprocess of another request.                   *)
(* Violated: the 'close' handler reads whatever file exists at             *)
(* drivers/gui_<functionName>.c; when the CLI fails without writing, the   *)
(* file of an earlier generation is sent as this request's artifact.       *)
(***************************************************************************)
C34_ArtifactIsOwnOrEmpty ==
  \A r \in Reqs :
    \A i \in 1..Len(sent[r]) :
      sent[r][i].type = "complete" =>
        \/ sent[r][i].driverCode = <<>>
        \/ child[r].wrote /\ sent[r][i].driverCode = DriverText(r)

(***************************************************************************)
(* C35: for a validated request whose caller stays connected, once the     *)
(* launch has failed or the subprocess has exited, a terminal event is     *)
(* eventually written to the stream and the server eventually ends the     *)
(* stream; and the server never ends the stream while the subprocess runs. *)
(***************************************************************************)
C35_StreamEventuallyEnded ==
  \A r \in Reqs :
    /\ [](res[r].ended => ~Running(r))
    /\ (phase[r] = "open" /\ (LaunchFailed(r) \/ child[r].state = "exited"))
         ~> \/ disconnected[r]
            \/ /\ res[r].ended
               /\ \E i \in 1..Len(wire[r]) : Terminal(wire[r][i])

C35_Witness ==
  \E r \in Reqs :
    /\ Started(r) /\ Closed(r) /\ ~disconnected[r]
    /\ child[r].exitCode = 0
    /\ Len(outChunks[r]) > 0
    /\ res[r].ended
    /\ Terminal(Last(wire[r]))

(***************************************************************************)
(* C36: a generation request that lacks project, filename or functionName  *)
(* is rejected with status 400 before anything else happens: no subprocess *)
(* is spawned, no event-stream headers are set, no event is pushed.  A     *)
(* validated request without model or maxIterations passes gpt-4o-mini and *)
(* 3 to the CLI.                                                           *)
(***************************************************************************)
C36_RejectedBeforeAnything ==
  \A r \in Reqs :
    /\ (/\ phase[r] # "idle"
        /\ \E k \in {"project", "filename", "functionName"} : k \notin DOMAIN query[r])
         => phase[r] = "rejected"
    /\ phase[r] = "rejected" =>
         /\ res[r].status = 400
         /\ ~res[r].sse
         /\ spawns[r] = 0
         /\ child[r] = NoChild
         /\ sent[r] = <<>>
         /\ wire[r] = <<>>
    /\ (phase[r] = "open" /\ "model" \notin DOMAIN query[r]) =>
         child[r].args[6] = <<"gpt-4o-mini">>
    /\ (phase[r] = "open" /\ "maxIterations" \notin DOMAIN query[r]) =>
         child[r].args[8] = <<"3">>

C36_Witness ==
  \E r \in Reqs :
    /\ phase[r] = "rejected"
    /\ "functionName" \notin DOMAIN query[r]
    /\ res[r].status = 400

(***************************************************************************)
(* C37: for every validated request the first event pushed is the status   *)
(* "Starting driver generation for <functionName>...", and it was pushed   *)
(* when spawn was called: it precedes every event derived from stdout or   *)
(* stderr and every terminal event, also when the launch fails.            *)
(***************************************************************************)
C37_StartingStatusFirst ==
  \A r \in Reqs :
    phase[r] = "open" =>
      /\ sent[r] # <<>>
      /\ sent[r][1] = [type |-> "status",
                       message |-> <<"Starting driver generation for ">>
                                     \o query[r].functionName \o <<"...">>]
      /\ wire[r][1] = sent[r][1]
      /\ origin[r][1].stream = "server"
      /\ spawns[r] = 1 /\ child[r].eventsAtSpawn = 1
      /\ \A i \in 2..Len(sent[r]) :
           sent[r][i].type # "status" \/ origin[r][i].stream = "stdout"

C37_Witness ==
  \E r \in Reqs :
    /\ LaunchFailed(r) /\ Closed(r)
    /\ sent[r][1].type = "status"
    /\ sent[r][2].type = "error"

(***************************************************************************)
(* C38: once the channel of a request is closed, by the disconnect of the  *)
(* caller or because the server ended the stream, no step pushes a further *)
(* event for the request.                                                  *)
(* Violated: sendEvent calls res.write unconditionally; after a disconnect *)
(* the handlers of the remaining output and of 'close' still push events,  *)
(* and after a failed launch 'close' pushes complete behind res.end().     *)
(***************************************************************************)
C38_NoPushAfterChannelClosed ==
  [][\A r \in Reqs : (reqClosed[r] \/ res[r].ended) => sent'[r] = sent[r]]_vars

(***************************************************************************)
(* The page of the browser (gui/src/App.tsx): handleGenerate and the       *)
(* handlers it installs on its EventSource, run against the server above.  *)
(* The EventSource of the browser dispatches the events written to the     *)
(* response in order; when the connection is lost or the stream ends it    *)
(* announces an error and, unless it was closed, fetches the URL again.    *)
(***************************************************************************)
\* number of Generate actions of the user in one behaviour
MaxClicks == 1

\* eventSource.onmessage = (event) => { switch (data.type) ... }
onmessage(c, data) ==
  IF data.type = "status" THEN [c EXCEPT !.progressMessage = data.message]
  ELSE IF data.type = "log"
  THEN [c EXCEPT !.logs = Append(SubSeq(@, IF Len(@) > 100 THEN Len(@) - 99 ELSE 1, Len(@)),
                                 [message |-> data.message,
                                  isError |-> "isError" \in DOMAIN data /\ data.isError])]
  ELSE IF data.type = "complete"
  THEN [c EXCEPT !.isGenerating = FALSE,
                 !.generationStatus = IF data.success THEN "success" ELSE "failed",
                 !.progressMessage = IF data.success THEN <<"Generation complete!">>
                                                     ELSE <<"Generation failed">>,
                 !.driverCode = IF data.driverCode # <<>> THEN data.driverCode ELSE @,
                 !.readyState = "CLOSED"]
  ELSE IF data.type = "error"
  THEN [c EXCEPT !.isGenerating = FALSE,
                 !.generationStatus = "failed",
                 !.progressMessage = <<"Error: ">> \o data.message,
                 !.readyState = "CLOSED"]
  ELSE c

\* an error handler that leaves the EventSource open
onerrorNoClose(c) ==
  [c EXCEPT !.isGenerating = FALSE,
            !.generationStatus = "failed",
            !.progressMessage = <<"Connection error">>]

\* eventSource.onerror = () => { ...; eventSource.close() }
onerror(c) ==
  [c EXCEPT !.isGenerating = FALSE,
            !.generationStatus = "failed",
            !.progressMessage = <<"Connection error">>,
            !.readyState = "CLOSED"]

\* what the page leaves alone: everything of the server but the arrivals
serverVars == <<phase, query, res, sent, origin, wire, child, outChunks, errChunks,
                spawns, reqClosed, disconnected, fs, artifactRead, env,
                resolverVars, classified, invoked, answered>>

\* handleGenerate, reached from the Generate button, which is disabled
\* while isGenerating; new EventSource(...) makes the next request
handleGenerate ==
  /\ client.clicks < MaxClicks
  /\ ~client.isGenerating
  /\ client.opened + 1 \in Reqs
  /\ client' = [client EXCEPT !.clicks = @ + 1,
                              !.opened = @ + 1,
                              !.stream = client.opened + 1,
                              !.readyState = "CONNECTING",
                              !.seen = 0,
                              !.isGenerating = TRUE,
                              !.generationStatus = "idle",
                              !.progressMessage = <<"Starting generation...">>,
                              !.driverCode = <<>>,
                              !.logs = <<>>]
  /\ arrivals' = arrivals \cup {client.opened + 1}
  /\ UNCHANGED serverVars

\* the response headers of the stream arrive: the EventSource is open
Connected ==
  /\ client.readyState = "CONNECTING"
  /\ phase[client.stream] = "open"
  /\ client' = [client EXCEPT !.readyState = "OPEN"]
  /\ UNCHANGED <<arrivals, serverVars>>

\* the next event written to the response is dispatched to onmessage
MessageReceived ==
  /\ client.readyState = "OPEN"
  /\ client.seen < Len(wire[client.stream])
  /\ client' = [onmessage(client, wire[client.stream][client.seen + 1])
                  EXCEPT !.seen = client.seen + 1]
  /\ UNCHANGED <<arrivals, serverVars>>

\* the connection is lost, or the stream ends with every event dispatched:
\* the EventSource goes back to CONNECTING and dispatches 'error' to
\* onerror; if it is not closed then, it makes the request again
ConnectionError ==
  /\ client.readyState \in {"CONNECTING", "OPEN"}
  /\ \/ disconnected[client.stream]
     \/ res[client.stream].ended /\ client.seen = Len(wire[client.stream])
  /\ LET after == onerror([client EXCEPT !.readyState = "CONNECTING"])
         again == after.readyState = "CONNECTING" /\ client.opened + 1 \in Reqs
     IN  /\ client' = IF again
                      THEN [after EXCEPT !.opened = @ + 1,
                                         !.stream = client.opened + 1,
                                         !.seen = 0]
                      ELSE after
         /\ arrivals' = IF again THEN arrivals \cup {client.opened + 1} ELSE arrivals
  /\ UNCHANGED serverVars

\* a page in front of a server whose CLI is missing, succeeds or fails
ClientInit ==
  /\ InitCommon
  /\ ResolverIdle
  /\ arrivals = {}
  /\ env = [queries |-> {[project |-> <<"p">>, filename |-> <<"a.c">>,
                          functionName |-> <<"f">>, model |-> <<"gpt-4o-mini">>,
                          maxIterations |-> <<"3">>]},
            scripts |-> {ScriptBrief,
                        [stdout |-> <<>>, stderr |-> <<"!">>, writes |-> FALSE,
                         exits |-> TRUE, code |-> 1]},
            launchErrors |-> {[message |-> <<"spawn tisaidga ENOENT">>, errno |-> -2]}]

ClientNext ==
  \/ handleGenerate
  \/ Connected
  \/ MessageReceived
  \/ ConnectionError
  \/ Next

ClientSpec == ClientInit /\ [][ClientNext]_vars

(***************************************************************************)
(* C39: one Generate action opens exactly one event stream and causes at   *)
(* most one generation: the page closes its EventSource on the first       *)
(* complete event, on the first error event and on a connection error, so  *)
(* that the stream is never requested again; in each of these cases it     *)
(* leaves the generating state, with status success when the complete      *)
(* event says success and failed otherwise.                                *)
(***************************************************************************)
C39_OneStreamPerGenerate ==
  /\ client.opened = client.clicks
  /\ arrivals = 1..client.clicks
  /\ \A r \in Reqs : spawns[r] <= (IF r \in arrivals THEN 1 ELSE 0)
  /\ \A i \in 1..(client.seen - 1) : ~Terminal(wire[client.stream][i])
  /\ client.isGenerating =>
       /\ client.readyState \in {"CONNECTING", "OPEN"}
       /\ client.generationStatus = "idle"
       /\ \A i \in 1..client.seen : ~Terminal(wire[client.stream][i])
  /\ (client.clicks > 0 /\ ~client.isGenerating) =>
       /\ client.readyState = "CLOSED"
       /\ client.generationStatus =
            (IF /\ client.seen > 0
                /\ wire[client.stream][client.seen].type = "complete"
                /\ wire[client.stream][client.seen].success
             THEN "success" ELSE "failed")

C39_Witness ==
  /\ client.clicks = 1
  /\ ~client.isGenerating
  /\ client.readyState = "CLOSED"
  /\ client.generationStatus = "success"
  /\ client.driverCode = DriverText(1)
  /\ reqClosed[1]

====
